---- MODULE Spec2Model ----
(***************************************************************************)
(* Model of the contract invoker of packages/script/vminit.go:             *)
(* ExecContract with its recursion guard, parameter binding, parent        *)
(* chaining, gas charge, stack and signature hooks and the method          *)
(* sequence init -> conditions -> action, together with the nested calls   *)
(* that contract methods make through the shared extend map.               *)
(*                                                                         *)
(* Strings are sequences of one-character strings, so that strings.Split   *)
(* and the regular expression of ParseContract are computed, not assumed.  *)
(***************************************************************************)
EXTENDS Integers, Sequences, FiniteSets, TLC

VARIABLES stack, extend, cost, ret, calls, charged, aux

\* stack .. charged: the state of one caller of ExecContract; aux: what the
\* other entry points of the package work on (unused by ExecContract)
vars == <<stack, extend, cost, ret, calls, charged, aux>>
invoker == <<stack, extend, cost, ret, calls, charged>>

----------------------------------------------------------------------------
(* Bounds of the exploration *)

\* number of ExecContract invocations in one behaviour, which also bounds
\* the depth of their nesting
MaxCalls == 2
\* the longest contract name handed to ParseContract
MaxNameLen == 2

----------------------------------------------------------------------------
(* Program constants: vminit.go, const block *)

ObjContract == 1
ObjFunc == 2
ObjVar == 4
CostContract == 100

\* the nil interface value, as read from an absent key of the extend map
Nil == <<"nil">>

\* error kinds returned by ExecContract ("" is the nil error)
NoError == ""
eUnknownContract == "UnknownContract"
errContractPars == "BadContractParams"
eUndefinedParam == "UndefinedParam"
eContractLoop == "ContractLoop"
eSignature == "CheckSignatureFailed"
eMethod == "MethodFailed"

----------------------------------------------------------------------------
(* Strings *)

Comma == ","
Digits == <<"0", "1", "2", "3", "4", "5", "6", "7", "8", "9">>
Letters == {"A", "B", "C", "D", "G", "H", "J", "K", "S", "W", "Z"}

IsDigit(c) == \E i \in 1..Len(Digits) : Digits[i] = c
DigitVal(c) == (CHOOSE i \in 1..Len(Digits) : Digits[i] = c) - 1
\* the class \w of the regular expression: letters, digits and underscore
IsWord(c) == IsDigit(c) \/ c \in Letters \/ c = "_"

\* strings.Split(txs, ","): the pieces between the commas, at least one piece
RECURSIVE Split(_)
Split(s) ==
    IF \A i \in 1..Len(s) : s[i] # Comma
    THEN <<s>>
    ELSE LET k == CHOOSE i \in 1..Len(s) :
                      s[i] = Comma /\ \A j \in 1..(i - 1) : s[j] # Comma
         IN <<SubSeq(s, 1, k - 1)>> \o Split(SubSeq(s, k + 1, Len(s)))

\* strconv.ParseUint(ds, 10, 32). The value is kept as two 16-bit halves
\* [hi, lo] (value hi * 2^16 + lo); on a range error the result is the largest
\* 32-bit value (and an error, which ParseContract only logs).
Half == 65536
RECURSIVE DecimalValue(_)
DecimalValue(ds) ==
    IF ds = <<>> THEN [hi |-> 0, lo |-> 0, over |-> FALSE]
    ELSE LET v == DecimalValue(SubSeq(ds, 1, Len(ds) - 1))
             lo == v.lo * 10 + DigitVal(ds[Len(ds)])
             hi == v.hi * 10 + (lo \div Half)
         IN IF v.over \/ hi >= Half
            THEN [hi |-> 0, lo |-> 0, over |-> TRUE]
            ELSE [hi |-> hi, lo |-> lo % Half, over |-> FALSE]
ParseUint(ds) ==
    LET v == DecimalValue(ds)
    IN IF v.over THEN [hi |-> Half - 1, lo |-> Half - 1]
       ELSE [hi |-> v.hi, lo |-> v.lo]
Zero32 == [hi |-> 0, lo |-> 0]

\* (ParseContractOneDigit: the faulty variant whose digit group is not greedy)
ParseContractOneDigit(in) ==
    IF /\ Len(in) >= 3
       /\ in[1] = "@"
       /\ IsDigit(in[2])
       /\ \A i \in 2..Len(in) : IsWord(in[i])
    THEN [id |-> ParseUint(SubSeq(in, 2, 2)), name |-> SubSeq(in, 3, Len(in))]
    ELSE [id |-> Zero32, name |-> <<>>]

\* ParseContract: (?is)^@(\d+)(\w[_\w\d]*)$ . The digit group is greedy but
\* gives back one digit when it would otherwise leave no character for the name.
ParseContract(in) ==
    IF /\ Len(in) >= 3
       /\ in[1] = "@"
       /\ IsDigit(in[2])
       /\ \A i \in 2..Len(in) : IsWord(in[i])
    THEN LET run == CHOOSE k \in 2..Len(in) :
                        /\ \A i \in 2..k : IsDigit(in[i])
                        /\ (k = Len(in) \/ ~IsDigit(in[k + 1]))
             dend == IF run = Len(in) THEN run - 1 ELSE run
         IN [id |-> ParseUint(SubSeq(in, 2, dend)),
             name |-> SubSeq(in, dend + 1, Len(in))]
    ELSE [id |-> Zero32, name |-> <<>>]

----------------------------------------------------------------------------
(* The root registry rt.vm.Objects, fixed at load time *)

Methods == <<"init", "conditions", "action">>

Who == <<"W">>
Signature == <<"S">>

Field(n, tags) == [Name |-> n, Type |-> "string", Tags |-> tags]

\* reflect.New(tx.Type).Elem().Interface(): the zero value of the field type
ZeroValue(type) == IF type = "string" THEN "" ELSE "0"

NameA == <<"@", "1", "A">>
NameB == <<"@", "2", "B">>
NameC == <<"C">>
NameD == <<"@", "1", "D">>
NameG == <<"@", "2", "G">>
Optional == <<"O">>
NameJ == <<"@", "2", "J">>
Other == <<"K">>
NameH == <<"H">>
NameK == <<"@", "0", "K">>
NameZ == <<"Z">>

Contract(n, tx, i, c, a) ==
    [Type |-> ObjContract, Name |-> n, Tx |-> tx,
     Objects |-> [m \in {"init", "conditions", "action"} |->
                     IF m = "init" THEN i ELSE IF m = "conditions" THEN c ELSE a]]

\* A: one required field, the three methods; B: a Signature field, action
\* only (conditions is an object that is no function); C: no schema and no
\* method; D, H, K: no schema, action only, under a name of state 1, a name
\* without state and a name of state 0; G: a required and an optional field;
\* J: an optional field, then two required ones.
Objects ==
    (NameA :> Contract(NameA, <<Field(Who, "")>>, ObjFunc, ObjFunc, ObjFunc)) @@
    (NameB :> Contract(NameB, <<Field(Signature, "")>>, 0, ObjVar, ObjFunc)) @@
    (NameC :> Contract(NameC, <<>>, 0, 0, 0)) @@
    (NameD :> Contract(NameD, <<>>, 0, 0, ObjFunc)) @@
    (NameG :> Contract(NameG, <<Field(Who, ""), Field(Optional, "optional")>>,
                       0, 0, ObjFunc)) @@
    (NameJ :> Contract(NameJ, <<Field(Optional, "optional"), Field(Who, ""),
                                Field(Other, "")>>, 0, 0, ObjFunc)) @@
    (NameH :> Contract(NameH, <<>>, 0, 0, ObjFunc)) @@
    (NameK :> Contract(NameK, <<>>, 0, 0, ObjFunc))

Registered == DOMAIN Objects

\* strings.Contains(tx.Tags, "optional")
IsOptional(tags) == tags = "optional"

----------------------------------------------------------------------------
(* The extend map *rt.extend, by groups of keys:                            *)
(*   loop        the contract names n whose key "loop_"+n is present        *)
(*   parent      the value of extend["parent"] (Nil when absent)            *)
(*   result      the value of extend["result"] (Nil when absent)            *)
(*   pars        the other keys, a function from names to values: the      *)
(*               bound parameters                                           *)
(*   sc          whether extend["sc"] is non-nil                            *)
(*   stack_cont  whether extend["stack_cont"] is present                    *)

\* (SetKeyFirst: the faulty variant that keeps the value a key already has)
SetKeyFirst(ext, k, v) == [ext EXCEPT !.pars = @ @@ (k :> v)]
\* a parameter named parent is written to the key the invoker uses itself
ParentKey == <<"p", "a", "r", "e", "n", "t">>
SetKey(ext, k, v) ==
    IF k = ParentKey THEN [ext EXCEPT !.parent = v]
    ELSE [ext EXCEPT !.pars = (k :> v) @@ @]

\* lines 238: the guard key "loop_"+name is present
HasLoop(ext, name) == name \in ext.loop

\* line 242: (*rt.extend)["loop_"+name] = true
\* (SetLoopNone: the faulty variant that sets nothing)
SetLoopNone(ext, name) == ext
SetLoop(ext, name) == [ext EXCEPT !.loop = @ \cup {name}]

\* the deferred call of line 243: delete(*rt.extend, "loop_"+name)
\* (DeferredDeleteKeep: the faulty variant that deletes nothing)
DeferredDeleteKeep(ext, name) == ext
DeferredDelete(ext, name) == [ext EXCEPT !.loop = @ \ {name}]

\* what runs when ExecContract returns: the deferred deletion, which exists
\* only in the invocations that went past line 243
\* (DeferredAlways: the faulty variant with the defer ahead of the guard)
DeferredAlways(ext, name, acquired) == DeferredDelete(ext, name)
Deferred(ext, name, acquired) ==
    IF acquired THEN DeferredDelete(ext, name) ELSE ext

\* lines 220-222: the set parnames of the supplied names
ParNames(pars) == {pars[i] : i \in 1..Len(pars)}

\* lines 226-227: a schema field that was not supplied and is not optional
\* (MissingRequiredNever: the faulty variant that takes every field as
\* optional; MissingRequiredAlways: the one that finds every field missing)
MissingRequiredNever(f, parnames) == FALSE
MissingRequiredAlways(f, parnames) == TRUE
MissingRequired(f, parnames) == f.Name \notin parnames /\ ~IsOptional(f.Tags)

\* lines 224-237: the walk over the schema in declaration order. An absent
\* optional field gets the zero value of its type; the first absent required
\* field ends the walk with eUndefinedParam.
RECURSIVE CheckTx(_, _, _, _)
CheckTx(tx, i, parnames, st) ==
    IF i > Len(tx) THEN st
    ELSE LET f == tx[i]
         IN IF MissingRequired(f, parnames)
            THEN [st EXCEPT !.err = eUndefinedParam, !.field = f.Name]
            ELSE CheckTx(tx, i + 1, parnames,
                    [st EXCEPT
                        !.ext = IF f.Name \notin parnames
                                THEN SetKey(@, f.Name, ZeroValue(f.Type))
                                ELSE @,
                        !.isSignature = @ \/ f.Name = Signature])

\* line 216: len(pars) != len(params)
ParsMismatch(pars, params) == Len(pars) # Len(params)

\* lines 244-246: bind the supplied names in order, a later one overwriting
RECURSIVE BindPars(_, _, _, _)
BindPars(ext, pars, params, i) ==
    IF i > Len(pars) THEN ext
    ELSE BindPars(SetKey(ext, pars[i], params[i]), pars, params, i + 1)

\* lines 248-264: the parent computed from the frames of the calling runtime.
\* A frame is [Type, ParentType, ParentName] (ParentType 0: no parent block).
RECURSIVE ParentFrom(_, _, _)
ParentFrom(blocks, i, name) ==
    IF i < 1 THEN <<>>
    ELSE IF /\ blocks[i].Type = ObjFunc
            /\ blocks[i].ParentType = ObjContract
         THEN LET p == blocks[i].ParentName
                  f == ParseContract(p)
                  c == ParseContract(name)
              IN IF Len(f.name) > 0
                 THEN IF f.id = Zero32 THEN <<"@">> \o f.name
                      ELSE IF f.id = c.id THEN f.name
                      ELSE p
                 ELSE p
         ELSE ParentFrom(blocks, i - 1, name)

\* line 265: rt.cost -= CostContract
Charge(c) == c - CostContract

\* line 281: rt.vm.RunInit(rt.cost) seeds the sub-runtime of a method
\* (RunInitDefault: the faulty variant that seeds it as VM.Call does, line 399)
CostDefault == 10000000
RunInitDefault(c) == CostDefault
RunInit(c) == c

\* line 284: rt.cost = rtemp.cost
\* (CopyBackDropped: the faulty variant without the assignment)
CopyBackDropped(rtcost, rtempcost) == rtcost
CopyBack(rtcost, rtempcost) == rtempcost

\* lines 279-280: the next of init, conditions, action, from index i on, that
\* the contract block holds as a function (0: none is left)
\* line 280: ok && block.Type == ObjFunc
\* (IsMethodPresent: the faulty variant without the type test)
IsMethodPresent(name, m) == Objects[name].Objects[m] # 0
IsMethod(name, m) == Objects[name].Objects[m] = ObjFunc

RECURSIVE NextMethod(_, _)
NextMethod(name, i) ==
    IF i > Len(Methods) THEN 0
    ELSE IF IsMethod(name, Methods[i]) THEN i
    ELSE NextMethod(name, i + 1)

\* lines 295-297: fmt.Sprint(extend["result"]) when it is set
Result(ext) == IF ext.result # Nil THEN ext.result ELSE <<>>

\* line 271: (*rt.extend)["sc"] != nil && isSignature
\* (NeedsSignatureAlways: the faulty variant that does not look at sc)
NeedsSignatureAlways(sc, isSignature) == isSignature
NeedsSignature(sc, isSignature) == sc /\ isSignature

\* lines 207-278: ExecContract from its entry to the method loop, on the
\* runtime (blocks, rtcost) and the extend map ext. sigErr is the outcome of
\* the host function check_signature. The outcome says whether the call
\* already returned (err) and what it left behind.
Enter(blocks, rtcost, ext, name, txs, params, sigErr) ==
    LET base == [err |-> NoError, field |-> <<>>, ext |-> ext, cost |-> rtcost,
                 events |-> <<>>, acquired |-> FALSE, charged |-> FALSE,
                 prevparent |-> Nil, parent |-> <<>>, stackCont |-> FALSE,
                 isSignature |-> FALSE, pars |-> <<>>]
    IN IF name \notin Registered
       THEN [base EXCEPT !.err = eUnknownContract]
       ELSE LET pars == Split(txs)
            IN IF ParsMismatch(pars, params)
               THEN [base EXCEPT !.err = errContractPars, !.pars = pars]
               ELSE LET st == CheckTx(Objects[name].Tx, 1, ParNames(pars),
                                      [base EXCEPT !.pars = pars])
                    IN IF st.err # NoError THEN st
                       ELSE IF HasLoop(st.ext, name)
                       THEN [st EXCEPT !.err = eContractLoop]
                       ELSE LET bound == BindPars(SetLoop(st.ext, name), pars, params, 1)
                                hook == bound.stack_cont /\ bound.sc
                                sig == NeedsSignature(bound.sc, st.isSignature)
                                ev == (IF hook THEN <<"stack:enter">> ELSE <<>>) \o
                                      (IF sig THEN <<"check_signature">> ELSE <<>>)
                            IN [st EXCEPT
                                   !.ext = bound,
                                   !.acquired = TRUE,
                                   !.prevparent = bound.parent,
                                   !.parent = ParentFrom(blocks, Len(blocks), name),
                                   !.cost = Charge(rtcost),
                                   !.charged = TRUE,
                                   !.stackCont = hook,
                                   !.events = ev,
                                   !.err = IF sig /\ sigErr THEN eSignature ELSE NoError]

\* lines 291-298: the end of a call whose methods all returned without error
\* (FinishKeep: the faulty variant that leaves extend["parent"] as the methods left it)
FinishKeep(ext, prevparent) == ext
Finish(ext, prevparent) == [ext EXCEPT !.parent = prevparent]
FinishEvents(events, stackCont) ==
    IF stackCont THEN Append(events, "stack:exit") ELSE events

----------------------------------------------------------------------------
(* The running invocations.  stack[d] is the ExecContract invocation at     *)
(* depth d, suspended in rtemp.Run of its method Methods[mi].  Its runtime  *)
(* rt is the caller's: the top-level runtime (cost) at depth 1, the         *)
(* sub-runtime rtemp of the calling method below.                           *)

\* the inputs the callers draw from
\* (txs, params): the empty string, one name, a name twice, two names, with
\* as many values as names or not
ArgLists == { [txs |-> <<>>, params |-> <<>>],
              [txs |-> <<>>, params |-> <<"Ada">>],
              [txs |-> <<"W">>, params |-> <<"Ada">>],
              [txs |-> <<"W">>, params |-> <<"Ada", "Bob">>],
              [txs |-> <<"W", ",", "W">>, params |-> <<"Ada", "Bob">>],
              [txs |-> <<"W", ",", "S">>, params |-> <<"Ada", "Bob">>] }
CallNames == {NameA, NameB, NameC, NameZ}
InitCosts == {150}
BodyCosts == {7}
ResultValues == { <<"H", "i">> }

\* check_signature can only fail where a schema names Signature
SigOutcomes(name) ==
    IF /\ name \in Registered
       /\ \E i \in 1..Len(Objects[name].Tx) : Objects[name].Tx[i].Name = Signature
    THEN BOOLEAN ELSE {FALSE}

NoRet == [valid |-> FALSE]
NoAux == [kind |-> "none"]

Top == stack[Len(stack)]

\* the cost of the runtime an invocation at depth d was called with
RtCost(stk, c, d) == IF d = 1 THEN c ELSE stk[d - 1].rtemp

\* the frames rt.blocks of that runtime: none for a top-level caller, the
\* function block of the running method (a child of its contract) below
MethodBlock(name) ==
    [Type |-> ObjFunc, ParentType |-> ObjContract, ParentName |-> Objects[name].Name]
RtBlocks(stk, d) == IF d = 1 THEN <<>> ELSE <<MethodBlock(stk[d - 1].name)>>

\* the state after the invocation at depth d (frames below it: stk) returned
\* with its runtime's cost at c2: the cost is written to the caller's runtime,
\* and an error makes the calling method fail with it
Deliver(stk, c, d, c2, err) ==
    IF d = 1 THEN [stack |-> stk, cost |-> c2]
    ELSE [stack |-> [stk EXCEPT ![d - 1].rtemp = c2,
                                ![d - 1].pendingErr = err],
          cost |-> c]

\* the record of a return of ExecContract: its error, the place it returned
\* from ("entry": lines 207-241, "hook": line 276, "method": line 287,
\* "end": line 298), and what the invocation was called with
Returned(f, err, from, field, ext, events, d) ==
    [valid |-> TRUE, name |-> f.name, err |-> err, from |-> from, field |-> field,
     result |-> IF err = NoError THEN Result(ext) ELSE <<>>,
     events |-> events, entry |-> f.entry, depth |-> d,
     acquired |-> f.acquired, charged |-> f.charged,
     pars |-> f.pars, params |-> f.params]

\* the method loop of lines 279-290 from index i on, for the invocation f at
\* depth d whose runtime holds rtcost: either a method starts, or the call
\* ends successfully (lines 291-298 and the deferred deletion)
Advance(stk, f, d, rtcost, ext, i) ==
    LET m == NextMethod(f.name, i)
        nxt == Deliver(stk, cost, d, rtcost, NoError)
    IN IF m # 0
       THEN /\ stack' = Append(nxt.stack, [f EXCEPT !.mi = m,
                                                    !.rtemp = RunInit(rtcost),
                                                    !.steps = 0,
                                                    !.pendingErr = NoError,
                                                    !.events = Append(@, Methods[m])])
            /\ cost' = nxt.cost
            /\ extend' = [ext EXCEPT !.parent = f.parent]
            /\ ret' = NoRet
       ELSE LET fin == Finish(ext, f.prevparent)
                ev == FinishEvents(f.events, f.stackCont)
            IN /\ stack' = nxt.stack
               /\ cost' = nxt.cost
               /\ extend' = Deferred(fin, f.name, f.acquired)
               /\ ret' = Returned(f, NoError, "end", <<>>, fin, ev, d)

\* ExecContract(rt, name, txs, params...) called on the runtime at the top
ExecContract(name, txs, params, sigErr) ==
    LET d == Len(stack) + 1
        rtcost == RtCost(stack, cost, d)
        Frame(o) ==
             [name |-> name, pars |-> o.pars, params |-> params,
              prevparent |-> o.prevparent,
              parent |-> o.parent, stackCont |-> o.stackCont,
              acquired |-> o.acquired, charged |-> o.charged,
              isSignature |-> o.isSignature,
              mi |-> 0, rtemp |-> 0, steps |-> 0, pendingErr |-> NoError,
              events |-> o.events,
              entry |-> [loop |-> HasLoop(extend, name), parent |-> extend.parent,
                         cost |-> rtcost, charged |-> charged]]
        o == Enter(RtBlocks(stack, d), rtcost, extend, name, txs, params, sigErr)
        f == Frame(o)
    IN /\ calls < MaxCalls
       /\ calls' = calls + 1
       /\ charged' = IF o.charged THEN charged + CostContract ELSE charged
       /\ IF o.err # NoError
          THEN LET nxt == Deliver(stack, cost, d, o.cost, o.err)
               IN /\ stack' = nxt.stack
                  /\ cost' = nxt.cost
                  /\ extend' = Deferred(o.ext, name, o.acquired)
                  /\ ret' = Returned(f, o.err, IF o.acquired THEN "hook" ELSE "entry",
                                  o.field, o.ext, o.events, d)
          ELSE Advance(stack, f, d, o.cost, o.ext, 1)

\* a host caller invokes ExecContract on its own runtime
TopCall ==
    /\ stack = <<>>
    /\ \E name \in CallNames, a \in ArgLists :
          \E sigErr \in SigOutcomes(name) :
              ExecContract(name, a.txs, a.params, sigErr)
    /\ UNCHANGED aux

\* the body of the running method calls ExecContract through the extern
\* bridge; its first argument is the method's own runtime
NestedCall ==
    /\ stack # <<>>
    /\ Top.pendingErr = NoError
    /\ \E name \in CallNames, a \in ArgLists :
          \E sigErr \in SigOutcomes(name) :
              ExecContract(name, a.txs, a.params, sigErr)
    /\ UNCHANGED aux

\* the body of the running method spends gas of its runtime (once, the
\* amount being any of BodyCosts)
BodyConsume ==
    /\ stack # <<>>
    /\ Top.pendingErr = NoError
    /\ Top.steps = 0
    /\ \E c \in BodyCosts :
          /\ stack' = [stack EXCEPT ![Len(stack)].rtemp = @ - c,
                                    ![Len(stack)].steps = @ + 1]
          /\ charged' = charged + c
    /\ ret' = NoRet
    /\ UNCHANGED <<extend, cost, calls, aux>>

\* the body of a running action method sets extend["result"]
BodySetResult ==
    /\ stack # <<>>
    /\ Methods[Top.mi] = "action"
    /\ Top.pendingErr = NoError
    /\ \E v \in ResultValues :
          /\ extend.result # v
          /\ extend' = [extend EXCEPT !.result = v]
    /\ ret' = NoRet
    /\ UNCHANGED <<stack, cost, calls, charged, aux>>

\* rtemp.Run returns without error: lines 284-290, then the next method or
\* the end of the call
MethodReturn ==
    /\ stack # <<>>
    /\ Top.pendingErr = NoError
    /\ LET d == Len(stack)
           below == SubSeq(stack, 1, d - 1)
           rtcost == CopyBack(RtCost(stack, cost, d), Top.rtemp)
       IN Advance(below, Top, d, rtcost, extend, Top.mi + 1)
    /\ UNCHANGED <<calls, charged, aux>>

\* rtemp.Run returns an error (its own, or the one of a nested call that
\* failed): lines 284-288 and the deferred deletion
MethodFail ==
    /\ stack # <<>>
    /\ LET d == Len(stack)
           below == SubSeq(stack, 1, d - 1)
           err == IF Top.pendingErr # NoError THEN Top.pendingErr ELSE eMethod
           rtcost == CopyBack(RtCost(stack, cost, d), Top.rtemp)
           nxt == Deliver(below, cost, d, rtcost, err)
       IN /\ stack' = nxt.stack
          /\ cost' = nxt.cost
          /\ extend' = Deferred(extend, Top.name, Top.acquired)
          /\ ret' = Returned(Top, err, "method", <<>>, extend, Top.events, d)
    /\ UNCHANGED <<calls, charged, aux>>

InvokerInit ==
    /\ stack = <<>>
    /\ cost \in InitCosts
    /\ \E sc \in BOOLEAN :
          extend = [loop |-> {}, parent |-> Nil, result |-> Nil,
                    pars |-> <<>>, sc |-> sc, stack_cont |-> TRUE]
    /\ ret = NoRet
    /\ calls = 0
    /\ charged = 0

Init ==
    /\ InvokerInit
    /\ aux = NoAux

Next ==
    \/ TopCall
    \/ NestedCall
    \/ BodyConsume
    \/ BodySetResult
    \/ MethodReturn
    \/ MethodFail

Spec == Init /\ [][Next]_vars

----------------------------------------------------------------------------
(* The other entry points of the package work on aux and leave the caller  *)
(* of ExecContract idle.                                                    *)

Idle ==
    /\ stack = <<>>
    /\ cost = 0
    /\ extend = [loop |-> {}, parent |-> Nil, result |-> Nil,
                 pars |-> <<>>, sc |-> FALSE, stack_cont |-> TRUE]
    /\ ret = NoRet
    /\ calls = 0
    /\ charged = 0

----------------------------------------------------------------------------
(* ParseContract on the names "@" + decimal(id) + name                      *)

\* an unsigned 64-bit id below 2^48 as three 16-bit limbs: top * 2^32 +
\* hi * 2^16 + lo
U(top, hi, lo) == [top |-> top, hi |-> hi, lo |-> lo]
UZero == U(0, 0, 0)

\* quotient and remainder of v by ten, limb by limb
DivTen(v) ==
    LET a == (v.top % 10) * Half + v.hi
        b == (a % 10) * Half + v.lo
    IN [q |-> U(v.top \div 10, a \div 10, b \div 10), r |-> b % 10]

\* the decimal digits of v, most significant first, "0" for zero
RECURSIVE DecimalDigits(_)
DecimalDigits(v) ==
    IF v = UZero THEN <<>>
    ELSE DecimalDigits(DivTen(v).q) \o <<Digits[DivTen(v).r + 1]>>
FormatUint(v) == IF v = UZero THEN <<"0">> ELSE DecimalDigits(v)

\* "@" + decimal(id) + name
QualifiedName(id, name) == <<"@">> \o FormatUint(id) \o name

\* StateName(state, name): "@<state><name>" for a state other than 0, the
\* name unchanged for state 0
StateName(state, name) ==
    IF state # 0 THEN QualifiedName(U(0, 0, state), name) ELSE name

\* the ids and the names ParseContract is tried on: ids on both sides of
\* 2^16 and 2^32, names of word characters starting with a letter, an
\* underscore or a digit
Ids == { U(top, hi, lo) : top \in 0..1, hi \in {0, 1, Half - 1},
                          lo \in {0, 7, 12, Half - 1} } \ {UZero}
NameChars == {"A", "_", "5"}
Names == UNION { [1..n -> NameChars] : n \in 1..MaxNameLen }

\* the other strings ParseContract is tried on: every string of at most
\* MaxNameLen + 2 characters among "@", a digit, a letter and a character
\* that is no word character
RawChars == {"@", "1", "A", "-"}
RawInputs == UNION { [1..n -> RawChars] : n \in 0..(MaxNameLen + 2) }

ParseInit ==
    /\ Idle
    /\ \/ \E id \in Ids, name \in Names :
             aux = [kind |-> "parse", id |-> id, name |-> name,
                    in |-> QualifiedName(id, name),
                    done |-> FALSE, out |-> [id |-> Zero32, name |-> <<>>]]
       \/ \E in \in RawInputs :
             aux = [kind |-> "raw", in |-> in,
                    done |-> FALSE, out |-> [id |-> Zero32, name |-> <<>>]]

ParseContractCall ==
    /\ aux.kind \in {"parse", "raw"}
    /\ ~aux.done
    /\ aux' = [aux EXCEPT !.done = TRUE, !.out = ParseContract(aux.in)]
    /\ UNCHANGED invoker

ParseNext == ParseContractCall

ParseSpec == ParseInit /\ [][ParseNext]_vars

----------------------------------------------------------------------------
(* Chains of calls among contracts of different states: the callers Chain   *)
(* draws from are registered under a name of state 0, 1 or 2 or under a     *)
(* name without state.                                                      *)

ChainNames == {NameA, NameB, NameD, NameH, NameJ, NameK}
\* what each contract is called with: its required field if it has one, a
\* parameter named parent, or some of the three fields of J
ChainArgs(name) ==
    IF name = NameA THEN { [txs |-> <<"W">>, params |-> <<"Ada">>] }
    ELSE IF name = NameB THEN { [txs |-> <<"S">>, params |-> <<"Sig">>] }
    ELSE IF name = NameD
    THEN { [txs |-> <<"W">>, params |-> <<"Ada">>],
           [txs |-> ParentKey, params |-> << <<"x">> >>] }
    ELSE IF name = NameJ
    THEN { [txs |-> <<"S">>, params |-> <<"Sig">>],
           [txs |-> <<"W">>, params |-> <<"Ada">>],
           [txs |-> <<"W", ",", "K">>, params |-> <<"Ada", "Bob">>],
           [txs |-> <<"O", ",", "W", ",", "K">>, params |-> <<"Opt", "Ada", "Bob">>] }
    ELSE { [txs |-> <<"W">>, params |-> <<"Ada">>] }

ChainInit ==
    /\ stack = <<>>
    /\ cost \in InitCosts
    /\ extend = [loop |-> {}, parent |-> Nil, result |-> Nil,
                 pars |-> <<>>, sc |-> FALSE, stack_cont |-> TRUE]
    /\ ret = NoRet
    /\ calls = 0
    /\ charged = 0
    /\ aux = [kind |-> "chain"]

ChainTopCall ==
    /\ stack = <<>>
    /\ \E name \in ChainNames :
          \E a \in ChainArgs(name) :
              ExecContract(name, a.txs, a.params, FALSE)
    /\ UNCHANGED aux

ChainNestedCall ==
    /\ stack # <<>>
    /\ Top.pendingErr = NoError
    /\ \E name \in ChainNames :
          \E a \in ChainArgs(name) :
              ExecContract(name, a.txs, a.params, FALSE)
    /\ UNCHANGED aux

ChainNext ==
    \/ ChainTopCall
    \/ ChainNestedCall
    \/ MethodReturn
    \/ MethodFail

ChainSpec == ChainInit /\ [][ChainNext]_vars

----------------------------------------------------------------------------
(* ExContract, the wrapper that takes the parameters as a map               *)

\* strings.Join(names, sep)
RECURSIVE Join(_, _)
Join(names, sep) ==
    IF names = <<>> THEN <<>>
    ELSE IF Len(names) = 1 THEN names[1]
    ELSE names[1] \o <<sep>> \o Join(Tail(names), sep)

\* the nil interface value among the values of parameters
NilValue == "<nil>"

\* lines 445-454: the schema fields in order, each with the value the map
\* holds for it (nil for an absent optional field); the first absent
\* required field ends the walk with eUndefinedParam
RECURSIVE FlattenTx(_, _, _, _)
FlattenTx(tx, params, i, st) ==
    IF i > Len(tx) THEN st
    ELSE LET f == tx[i]
             ok == f.Name \in DOMAIN params
         IN IF ~ok /\ ~IsOptional(f.Tags)
            THEN [st EXCEPT !.err = eUndefinedParam, !.field = f.Name]
            ELSE FlattenTx(tx, params, i + 1,
                    [st EXCEPT !.names = Append(@, f.Name),
                               !.vals = Append(@, IF ok THEN params[f.Name]
                                                  ELSE NilValue)])

\* (DummyArgNever: the faulty variant that never appends the dummy)
DummyArgNever(vals) == vals
\* (DummyArgAlways: the faulty variant that appends the dummy to every list)
DummyArgAlways(vals) == Append(vals, "")
\* lines 455-457
DummyArg(vals) == IF Len(vals) = 0 THEN Append(vals, "") ELSE vals

\* what ExContract hands to ExecContract, or the error it returns itself
ExArgs(state, name, params) ==
    LET qname == StateName(state, name)
        none == [err |-> NoError, field |-> <<>>, name |-> qname,
                 names |-> <<>>, vals |-> <<>>]
    IN IF qname \notin Registered THEN [none EXCEPT !.err = eUnknownContract]
       ELSE LET fl == FlattenTx(Objects[qname].Tx, params, 1, none)
            IN [fl EXCEPT !.vals = IF fl.err = NoError THEN DummyArg(@) ELSE @]

\* the (state, name) pairs and the maps ExContract is called with
ExTargets == { [state |-> 1, name |-> <<"A">>], [state |-> 2, name |-> <<"B">>],
               [state |-> 1, name |-> <<"D">>], [state |-> 2, name |-> <<"G">>],
               [state |-> 2, name |-> <<"A">>] }
ExParams == { <<>>,
              (Who :> "Ada") @@ (Optional :> "Opt"),
              (Who :> "Ada") @@ (Signature :> "Sig") }

\* check_signature can only fail where the schema of the target names Signature
ExSigOutcomes == [t \in ExTargets |-> SigOutcomes(StateName(t.state, t.name))]

\* ExContract(rt, state, name, params). aux keeps what the call was made with
\* and what it handed to ExecContract.
ExContract(state, name, params, sigErr) ==
    LET a == ExArgs(state, name, params)
        d == Len(stack) + 1
        rtcost == RtCost(stack, cost, d)
        txs == Join(a.names, Comma)
    IN /\ calls < MaxCalls
       /\ aux' = [kind |-> "ex", state |-> state, name |-> name, params |-> params,
                  sigErr |-> sigErr, err |-> a.err, txs |-> txs, vals |-> a.vals]
       /\ IF a.err # NoError
          THEN LET nxt == Deliver(stack, cost, d, rtcost, a.err)
               IN /\ calls' = calls + 1
                  /\ stack' = nxt.stack
                  /\ cost' = nxt.cost
                  /\ ret' = [valid |-> TRUE, name |-> a.name, err |-> a.err,
                             from |-> "wrapper", field |-> a.field, result |-> <<>>,
                             events |-> <<>>,
                             entry |-> [loop |-> HasLoop(extend, a.name),
                                        parent |-> extend.parent,
                                        cost |-> rtcost, charged |-> charged],
                             depth |-> d, acquired |-> FALSE, charged |-> FALSE,
                             pars |-> <<>>, params |-> <<>>]
                  /\ UNCHANGED <<extend, charged>>
          ELSE \E qname \in {a.name}, spec \in {txs}, vals \in {a.vals} :
                  ExecContract(qname, spec, vals, sigErr)

ExTopCall ==
    /\ stack = <<>>
    /\ \E t \in ExTargets :
          \E sigErr \in ExSigOutcomes[t], params \in ExParams :
              ExContract(t.state, t.name, params, sigErr)

\* the body of the running method calls CallContract through the extern bridge
ExNestedCall ==
    /\ stack # <<>>
    /\ Top.pendingErr = NoError
    /\ \E t \in ExTargets :
          \E sigErr \in ExSigOutcomes[t], params \in ExParams :
              ExContract(t.state, t.name, params, sigErr)

ExInit ==
    /\ InvokerInit
    /\ aux = [kind |-> "ex"]

ExNext ==
    \/ ExTopCall
    \/ ExNestedCall
    \/ MethodReturn
    \/ MethodFail

ExSpec == ExInit /\ [][ExNext]_vars

----------------------------------------------------------------------------
(* The root registry of a VM built by NewVM, its lookups and VM.Call.       *)
(* A Block is a function from names to ObjInfo records; an ObjInfo holds its *)
(* Type, the key it was registered under and, by type, the Objects of its   *)
(* Block or the ExtFuncInfo fields Params, Auto and Variadic.                *)

ObjExtFunc == 3
eUnknownFunction == "UnknownFunction"
ePanic == "panic"
None == [Type |-> 0]

Dot == "."
\* strings.Split(name, sep)
RECURSIVE SplitAt(_, _)
SplitAt(s, sep) ==
    IF \A i \in 1..Len(s) : s[i] # sep
    THEN <<s>>
    ELSE LET k == CHOOSE i \in 1..Len(s) :
                      s[i] = sep /\ \A j \in 1..(i - 1) : s[j] # sep
         IN <<SubSeq(s, 1, k - 1)>> \o SplitAt(SubSeq(s, k + 1, Len(s)), sep)

\* type names as reflect prints them
TRunTime == "*script.RunTime"
TString == "string"
TUint32 == "uint32"
TMap == "map[string]interface {}"
TSlice == "[]interface {}"

\* VM.Extend: one ExtFuncInfo per function of ext.Objects, Auto[i] taken from
\* ext.AutoPars by the name of the type of parameter i
ExtFuncInfo(key, in, variadic, autoPars) ==
    [Type |-> ObjExtFunc, Key |-> key, Params |-> in, Variadic |-> variadic,
     Auto |-> [i \in 1..Len(in) |->
                  IF in[i] \in DOMAIN autoPars THEN autoPars[in[i]] ELSE ""]]
Extend(objects, ext) ==
    [k \in DOMAIN ext.Objects |->
        ExtFuncInfo(k, ext.Objects[k].In, ext.Objects[k].Variadic, ext.AutoPars)]
    @@ objects

\* NewVM: the three built-ins, with *script.RunTime taken from extend["rt"]
NameExecContract == <<"E">>
NameCallContract == <<"X">>
NameSettings == <<"T">>
BuiltIns ==
    [Objects |->
        (NameExecContract :> [In |-> <<TRunTime, TString, TString, TSlice>>,
                              Variadic |-> TRUE]) @@
        (NameCallContract :> [In |-> <<TRunTime, TUint32, TString, TMap>>,
                              Variadic |-> FALSE]) @@
        (NameSettings :> [In |-> <<TRunTime, TString, TString>>,
                          Variadic |-> FALSE]),
     AutoPars |-> (TRunTime :> "rt")]
NewVM == Extend(<<>>, BuiltIns)

\* the objects a loaded program adds at the root under a key: a contract with
\* its action function, a function, a variable
NameAction == <<"a">>
Loaded(type, key) ==
    IF type = ObjContract
    THEN [Type |-> ObjContract, Key |-> key,
          Objects |-> (NameAction :> [Type |-> ObjFunc, Key |-> key \o <<Dot>> \o NameAction,
                                      Objects |-> <<>>])]
    ELSE IF type = ObjFunc
    THEN [Type |-> ObjFunc, Key |-> key, Objects |-> <<>>]
    ELSE [Type |-> type, Key |-> key]

\* getObjByName: the walk over the segments of the dotted name
RECURSIVE Walk(_, _, _)
Walk(block, names, i) ==
    IF names[i] \notin DOMAIN block THEN None
    ELSE LET obj == block[names[i]]
         IN IF i = Len(names) THEN obj
            ELSE IF obj.Type # ObjContract /\ obj.Type # ObjFunc THEN None
            ELSE Walk(obj.Objects, names, i + 1)
getObjByName(objects, name) == Walk(objects, SplitAt(name, Dot), 1)

\* (getObjByNameExtNoRetry, getObjByNameExtQualifiedFirst: the faulty variants
\* that never try the qualified name, and that try it first)
getObjByNameExtNoRetry(objects, name, state) == getObjByName(objects, name)
getObjByNameExtQualifiedFirst(objects, name, state) ==
    LET sname == StateName(state, name)
        obj == getObjByName(objects, sname)
    IN IF obj = None THEN getObjByName(objects, name) ELSE obj
getObjByNameExt(objects, name, state) ==
    LET sname == StateName(state, name)
        obj == getObjByName(objects, name)
    IN IF obj = None /\ Len(sname) > 0 THEN getObjByName(objects, sname) ELSE obj

\* the names, states and registries tried
NameFoo == <<"f", "o", "o">>
Name5Foo == <<"@", "5", "f", "o", "o">>
Name6Foo == <<"@", "6", "f", "o", "o">>
LoadedKeys == {NameFoo, Name5Foo, Name6Foo}
LoadedTypes == {ObjContract, ObjFunc, ObjVar}
States == {0, 5, 6}
QueryNames == {NameFoo, Name5Foo, NameFoo \o <<Dot>> \o NameAction, NameExecContract,
               NameFoo \o <<Dot>> \o NameFoo, NameSettings}
Registries ==
    { [k \in keys |-> Loaded(t[k], k)] @@ NewVM :
          keys \in SUBSET LoadedKeys, t \in [LoadedKeys -> LoadedTypes] }

NoCall == [op |-> "none"]

VMInit ==
    /\ Idle
    /\ \E objects \in Registries :
          aux = [kind |-> "vm", objects |-> objects, last |-> NoCall]

\* a lookup on behalf of a state
Resolve ==
    /\ aux.kind = "vm"
    /\ \E name \in QueryNames, state \in States :
          aux' = [aux EXCEPT !.last =
                     [op |-> "resolve", name |-> name, state |-> state,
                      obj |-> getObjByNameExt(aux.objects, name, state)]]
    /\ UNCHANGED invoker

\* the values callers pass: two runtimes and two strings, each with the name
\* of its type; the tail of a variadic call is packed into a slice
Value(t, v) == [t |-> t, v |-> v]
RT1 == Value(TRunTime, "rt1")
RT2 == Value(TRunTime, "rt2")
StrC == Value(TString, "C")
StrK == Value(TString, "k")
CallParams == { <<>>, <<StrC, StrK>>, <<RT1, StrC, StrK>>, <<RT2, StrC, StrK>>,
                <<RT2, StrC, StrK, StrK>> }
CallExtends ==
    { [has_state |-> FALSE, rt_state |-> 0, rt |-> RT1] } \cup
    { [has_state |-> TRUE, rt_state |-> n, rt |-> RT1] : n \in States }
RunErrors == {NoError, eMethod}

\* (DispatchContractAsFunc: the faulty variant that runs a contract's block)
DispatchContractAsFunc(type) ==
    IF type = ObjFunc \/ type = ObjContract THEN "func"
    ELSE IF type = ObjExtFunc THEN "extern" ELSE "unknown"
\* the switch of line 397
Dispatch(type) ==
    IF type = ObjFunc THEN "func"
    ELSE IF type = ObjExtFunc THEN "extern" ELSE "unknown"

\* lines 402-416: the arguments handed to reflect's Call, taken from params
\* position by position, the tail packed for a variadic function; indexing
\* params beyond its length and an argument of another type than the
\* parameter's both panic
Marshal(finfo, params) ==
    LET n == Len(finfo.Params)
        fixed == IF finfo.Variadic THEN n - 1 ELSE n
    IN IF Len(params) < fixed
       THEN [err |-> ePanic, args |-> <<>>]
       ELSE LET pars == IF finfo.Variadic
                        THEN SubSeq(params, 1, fixed) \o
                             <<Value(TSlice, SubSeq(params, n, Len(params)))>>
                        ELSE SubSeq(params, 1, fixed)
            IN IF \A i \in 1..n : pars[i].t = finfo.Params[i]
               THEN [err |-> NoError, args |-> pars]
               ELSE [err |-> ePanic, args |-> <<>>]

\* VM.Call(name, params, extend); runErr is the error rt.Run returns
CallOutcome(objects, name, params, ext, runErr) ==
    LET obj == IF ext.has_state
               THEN getObjByNameExt(objects, name, ext.rt_state)
               ELSE getObjByName(objects, name)
        base == [op |-> "call", name |-> name, params |-> params, ext |-> ext,
                 obj |-> obj, err |-> NoError, ran |-> "none", args |-> <<>>,
                 cost |-> 0]
    IN IF obj = None THEN [base EXCEPT !.err = eUnknownFunction]
       ELSE IF Dispatch(obj.Type) = "func"
       THEN [base EXCEPT !.ran = "func", !.args = params,
                         !.cost = RunInit(CostDefault), !.err = runErr]
       ELSE IF Dispatch(obj.Type) = "extern"
       THEN LET m == Marshal(obj, params)
            IN IF m.err # NoError THEN [base EXCEPT !.err = m.err]
               ELSE [base EXCEPT !.ran = "extern", !.args = m.args]
       ELSE [base EXCEPT !.err = eUnknownFunction]

Call ==
    /\ aux.kind = "vm"
    /\ \E name \in QueryNames, params \in CallParams, ext \in CallExtends,
          runErr \in RunErrors :
          aux' = [aux EXCEPT !.last = CallOutcome(aux.objects, name, params, ext, runErr)]
    /\ UNCHANGED invoker

VMNext ==
    \/ Resolve
    \/ Call

VMSpec == VMInit /\ [][VMNext]_vars

----------------------------------------------------------------------------
(* Two host callers on one VM, each with a runtime and an extend map of its *)
(* own.  The running caller's state is held in stack .. charged, the other  *)
(* caller's in aux.other; the scheduler switches between them at any step.  *)

\* the costs the two runtimes start with
ConcCosts == <<150, 260>>
ConcNames == {NameA, NameC}
ConcArgs == { [txs |-> <<"W">>, params |-> <<"Ada">>] }

Caller(c) ==
    [stack |-> <<>>, cost |-> c,
     extend |-> [loop |-> {}, parent |-> Nil, result |-> Nil,
                 pars |-> <<>>, sc |-> FALSE, stack_cont |-> TRUE],
     ret |-> NoRet, calls |-> 0, charged |-> 0]

\* (SharedGuard: the faulty variant in which the guard keys are kept in one
\* map for all runtimes)
SharedGuard(own, running) == [own EXCEPT !.loop = running.loop]
\* *rt.extend of lines 238-246 is the map of the caller's own runtime
OwnExtend(own, running) == own

ConcInit ==
    /\ stack = Caller(ConcCosts[1]).stack
    /\ cost = Caller(ConcCosts[1]).cost
    /\ extend = Caller(ConcCosts[1]).extend
    /\ ret = Caller(ConcCosts[1]).ret
    /\ calls = Caller(ConcCosts[1]).calls
    /\ charged = Caller(ConcCosts[1]).charged
    /\ aux = [kind |-> "conc", active |-> 1, objects |-> Objects,
              other |-> Caller(ConcCosts[2])]

\* the scheduler suspends the running caller and resumes the other one
Switch ==
    /\ aux.kind = "conc"
    /\ aux' = [aux EXCEPT !.active = 3 - @,
                          !.other = [stack |-> stack, cost |-> cost, extend |-> extend,
                                     ret |-> ret, calls |-> calls, charged |-> charged]]
    /\ stack' = aux.other.stack
    /\ cost' = aux.other.cost
    /\ extend' = OwnExtend(aux.other.extend, extend)
    /\ ret' = aux.other.ret
    /\ calls' = aux.other.calls
    /\ charged' = aux.other.charged

ConcTopCall ==
    /\ stack = <<>>
    /\ \E name \in ConcNames, a \in ConcArgs :
          ExecContract(name, a.txs, a.params, FALSE)
    /\ UNCHANGED aux

ConcNestedCall ==
    /\ stack # <<>>
    /\ Top.pendingErr = NoError
    /\ \E name \in ConcNames, a \in ConcArgs :
          ExecContract(name, a.txs, a.params, FALSE)
    /\ UNCHANGED aux

ConcNext ==
    \/ Switch
    \/ ConcTopCall
    \/ ConcNestedCall
    \/ MethodReturn
    \/ MethodFail

ConcSpec == ConcInit /\ [][ConcNext]_vars

----------------------------------------------------------------------------
(* chooseBestHost (daemons/blocks_collection.go): one goroutine per host     *)
(* queries the host's last block id, the calling goroutine waits for all of  *)
(* them and keeps the host with the largest id.  aux holds the call.         *)

MaxHosts == 2
\* the host of index i, as getHostPort gives it
Host(i) == <<"h", Digits[i + 1]>>
\* what a host answers: no connection, or its last block id
Replies == { [ok |-> FALSE, id |-> 0], [ok |-> TRUE, id |-> 0], [ok |-> TRUE, id |-> 5] }
eConnection == "ConnectionError"
eContext == "ContextError"

\* getHostBlockID: (0, err) when the connection, the request or the answer fails
getHostBlockID(reply) ==
    IF reply.ok THEN [blockID |-> reply.id, err |-> NoError]
    ELSE [blockID |-> 0, err |-> eConnection]

\* c := make(chan blockAndHost, len(hosts))
Capacity(n) == n

\* maxBlockID := int64(-1)
InitialMaxBlockID == -1

\* (Smaller: the faulty variant that keeps the host with the smaller id)
Smaller(blockID, maxBlockID) == blockID < maxBlockID
\* bl.blockID > maxBlockID
Bigger(blockID, maxBlockID) == blockID > maxBlockID

HostInit ==
    /\ Idle
    /\ \E n \in 0..MaxHosts :
          \E reply \in [1..n -> Replies] :
              aux = [kind |-> "hosts", n |-> n, reply |-> reply,
                     pc |-> "range", i |-> 1, wg |-> 0,
                     g |-> [j \in 1..n |-> "none"],
                     got |-> [j \in 1..n |-> [blockID |-> 0, err |-> NoError]],
                     c |-> <<>>, k |-> 0,
                     maxBlockID |-> 0, bestHost |-> <<>>,
                     cancelled |-> FALSE,
                     result |-> [host |-> <<>>, id |-> 0, err |-> NoError]]

\* lines 123-140: one iteration of the loop over hosts with the context alive
Spawn ==
    /\ aux.kind = "hosts" /\ aux.pc = "range"
    /\ aux.i <= aux.n
    /\ ~aux.cancelled
    /\ aux' = [aux EXCEPT !.wg = @ + 1, !.g[aux.i] = "query", !.i = @ + 1]
    /\ UNCHANGED invoker

\* lines 124-127: the context is cancelled when an iteration starts
ReturnCancelled ==
    /\ aux.kind = "hosts" /\ aux.pc = "range"
    /\ aux.i <= aux.n
    /\ aux.cancelled
    /\ aux' = [aux EXCEPT !.pc = "done",
                          !.result = [host |-> <<>>, id |-> 0, err |-> eContext]]
    /\ UNCHANGED invoker

\* line 141: wg.Wait() returns when the counter is zero; lines 143-144
Wait ==
    /\ aux.kind = "hosts" /\ aux.pc = "range"
    /\ aux.i > aux.n
    /\ aux.wg = 0
    /\ aux' = [aux EXCEPT !.pc = "receive", !.k = 0,
                          !.maxBlockID = InitialMaxBlockID, !.bestHost = <<>>]
    /\ UNCHANGED invoker

\* lines 145-152: one iteration of the receiving loop
Receive ==
    /\ aux.kind = "hosts" /\ aux.pc = "receive"
    /\ aux.k < aux.n
    /\ aux.c # <<>>
    /\ LET bl == Head(aux.c)
           better == Bigger(bl.blockID, aux.maxBlockID)
       IN aux' = [aux EXCEPT !.c = Tail(@), !.k = @ + 1,
                             !.maxBlockID = IF better THEN bl.blockID ELSE @,
                             !.bestHost = IF better THEN bl.host ELSE @]
    /\ UNCHANGED invoker

\* line 154
Return ==
    /\ aux.kind = "hosts" /\ aux.pc = "receive"
    /\ aux.k = aux.n
    /\ aux' = [aux EXCEPT !.pc = "done",
                          !.result = [host |-> aux.bestHost, id |-> aux.maxBlockID,
                                      err |-> NoError]]
    /\ UNCHANGED invoker

\* line 131: the goroutine of host j gets the answer of its host
Query(j) ==
    /\ aux.kind = "hosts"
    /\ j <= aux.n
    /\ aux.g[j] = "query"
    /\ aux' = [aux EXCEPT !.g[j] = "queried", !.got[j] = getHostBlockID(aux.reply[j])]
    /\ UNCHANGED invoker

\* line 132: wg.Done()
WgDone(j) ==
    /\ aux.kind = "hosts"
    /\ j <= aux.n
    /\ aux.g[j] = "queried"
    /\ aux' = [aux EXCEPT !.g[j] = "done", !.wg = @ - 1]
    /\ UNCHANGED invoker

\* lines 134-138: the send on c, which blocks while c is full
Send(j) ==
    /\ aux.kind = "hosts"
    /\ j <= aux.n
    /\ aux.g[j] = "done"
    /\ Len(aux.c) < Capacity(aux.n)
    /\ aux' = [aux EXCEPT !.g[j] = "sent",
                          !.c = Append(@, [host |-> Host(j),
                                           blockID |-> aux.got[j].blockID,
                                           err |-> aux.got[j].err])]
    /\ UNCHANGED invoker

\* the owner of the context cancels it
Cancel ==
    /\ aux.kind = "hosts"
    /\ aux.pc # "done"
    /\ ~aux.cancelled
    /\ aux' = [aux EXCEPT !.cancelled = TRUE]
    /\ UNCHANGED invoker

Goroutine(j) == Query(j) \/ WgDone(j) \/ Send(j)
ChooseBestHost == Spawn \/ ReturnCancelled \/ Wait \/ Receive \/ Return

HostNext ==
    \/ Spawn
    \/ ReturnCancelled
    \/ Wait
    \/ Receive
    \/ Return
    \/ \E j \in 1..MaxHosts : Query(j)
    \/ \E j \in 1..MaxHosts : WgDone(j)
    \/ \E j \in 1..MaxHosts : Send(j)
    \/ Cancel

\* every goroutine that can take a step eventually takes one
HostSpec ==
    /\ HostInit
    /\ [][HostNext]_vars
    /\ WF_vars(ChooseBestHost)
    /\ \A j \in 1..MaxHosts : WF_vars(Goroutine(j))

----------------------------------------------------------------------------
(* Properties *)

\* the cost now held by the runtime the returned invocation was called with
RetCost == RtCost(stack, cost, ret.depth)

\* the methods among a call's events, and the methods a contract holds as
\* functions, in the order init, conditions, action
IsMethodName(e) == \E i \in 1..Len(Methods) : Methods[i] = e
MethodEvents(events) == SelectSeq(events, IsMethodName)
FuncMethods(name) ==
    LET Holds(m) == Objects[name].Objects[m] = ObjFunc
    IN SelectSeq(Methods, Holds)
IsPrefix(s, t) == Len(s) <= Len(t) /\ s = SubSeq(t, 1, Len(s))
Occurrences(seq, x) == Cardinality({i \in 1..Len(seq) : seq[i] = x})
SchemaNames(name) == {Objects[name].Tx[i].Name : i \in 1..Len(Objects[name].Tx)}

C2_GuardDeletedOnEveryExit ==
    /\ (ret.valid /\ ret.acquired) => ~HasLoop(extend, ret.name)
    /\ (ret.valid /\ ret.err = NoError) =>
           (ret.acquired /\ ~ret.entry.loop /\ ~HasLoop(extend, ret.name))
C2_Witness ==
    ret.valid /\ ret.acquired /\ ret.err = eMethod /\ ret.from = "method"

C4_ParentRestoredOnEveryReturn ==
    ret.valid => extend.parent = ret.entry.parent

\* C5: the methods of one call run in the order init, conditions, action,
\* each at most once and only those the contract holds as functions; a call
\* that ends successfully ran them all, and a method's error ends the call
\* with that error before any later method.
C5_MethodOrder ==
    /\ \A i \in 1..Len(stack) :
          /\ IsPrefix(MethodEvents(stack[i].events), FuncMethods(stack[i].name))
          /\ MethodEvents(stack[i].events) # <<>>
          /\ Methods[stack[i].mi] =
                 MethodEvents(stack[i].events)[Len(MethodEvents(stack[i].events))]
    /\ (ret.valid /\ ret.acquired) =>
          /\ IsPrefix(MethodEvents(ret.events), FuncMethods(ret.name))
          /\ ret.err = NoError => MethodEvents(ret.events) = FuncMethods(ret.name)
          /\ ret.from = "method" =>
                 (ret.err # NoError /\ MethodEvents(ret.events) # <<>>)
C5_Witness ==
    /\ ret.valid /\ ret.err = NoError
    /\ MethodEvents(ret.events) = Methods

\* C6 (as claimed): a call that made the entry call of the stack hook has made
\* the exit call when it returns.
C6_HookExitMatchesEntry ==
    (ret.valid /\ Occurrences(ret.events, "stack:enter") > 0) =>
        /\ ret.events[1] = "stack:enter"
        /\ ret.events[Len(ret.events)] = "stack:exit"

\* C7: the cost of a runtime never increases: neither the top-level rt.cost
\* nor the cost of the sub-runtime of a running method, across the charge,
\* the nested calls and the copy-back.
C7_CostNeverIncreases ==
    [][/\ cost' <= cost
       /\ \A i \in 1..Len(stack) :
             i <= Len(stack') => stack'[i].rtemp <= stack[i].rtemp]_vars
C7_Witness ==
    /\ ret.valid /\ ret.depth = 1 /\ ret.err = NoError
    /\ cost < ret.entry.cost - 2 * CostContract

\* C8: when a call returns successfully (and with it every call nested in
\* it), the cost of its runtime is the cost at entry minus all the charges
\* made in between: CostContract once for each invocation and the gas the
\* method bodies spent.
C8_CostIsInitialMinusCharges ==
    (ret.valid /\ ret.err = NoError) =>
        RetCost = ret.entry.cost - (charged - ret.entry.charged)
C8_Witness ==
    /\ ret.valid /\ ret.depth = 1 /\ ret.err = NoError
    /\ charged - ret.entry.charged > 2 * CostContract

\* C9 (as claimed): a call whose charge leaves rt.cost negative fails with
\* OutOfGas and enters no method.
C9_NegativeChargeIsOutOfGas ==
    /\ \A i \in 1..Len(stack) : stack[i].entry.cost >= CostContract
    /\ (ret.valid /\ ret.charged /\ ret.entry.cost < CostContract) =>
           (ret.err = "OutOfGas" /\ MethodEvents(ret.events) = <<>>)

\* C10: the calls the claim is about: a registered contract whose schema is
\* non-empty and has no optional field, the guard key absent at entry, and no
\* failure of a hook or a method
C10_Case ==
    /\ ret.valid
    /\ ret.name \in Registered
    /\ Objects[ret.name].Tx # <<>>
    /\ \A i \in 1..Len(Objects[ret.name].Tx) : ~IsOptional(Objects[ret.name].Tx[i].Tags)
    /\ ~ret.entry.loop
    /\ ret.from \in {"entry", "end"}

\* C10 (as claimed): such a call succeeds iff every schema name appears in
\* tx_spec exactly once and there are as many values as names.
C10_SucceedsIffExactlyOnce ==
    C10_Case =>
        (ret.err = NoError <=>
            /\ Len(ret.params) = Len(ret.pars)
            /\ \A n \in SchemaNames(ret.name) : Occurrences(ret.pars, n) = 1)

\* C10 (amended): such a call succeeds iff every schema name appears in
\* tx_spec at least once and there are as many values as names.
C10_SucceedsIffAtLeastOnce ==
    C10_Case =>
        (ret.err = NoError <=>
            /\ Len(ret.params) = Len(ret.pars)
            /\ \A n \in SchemaNames(ret.name) : Occurrences(ret.pars, n) >= 1)
C10_Witness ==
    /\ C10_Case /\ ret.err = NoError
    /\ ret.pars = <<Who, Who>>

\* C11: the calls of scenario S2: contract A (schema [W]) called with the two
\* names W and S, a name the schema does not declare, and two values, the
\* guard key absent
C11_Case ==
    /\ ret.valid
    /\ ret.name = NameA
    /\ ret.pars = <<Who, Signature>> /\ Len(ret.params) = 2
    /\ ~ret.entry.loop

\* C11 (as claimed): such a call returns BadContractParams and leaves rt.cost
\* unchanged.
C11_ExtraNameRejected ==
    C11_Case => (ret.err = errContractPars /\ RetCost = ret.entry.cost)

\* C11 (amended): such a call is not rejected by the parameter checks: it is
\* charged CostContract and goes on to the methods of the contract.
C11_ExtraNameAccepted ==
    C11_Case =>
        /\ ret.from # "entry"
        /\ ret.charged
        /\ RetCost <= ret.entry.cost - CostContract
        /\ MethodEvents(ret.events) # <<>>
C11_Witness ==
    C11_Case /\ ret.err = NoError /\ ret.depth = 1

\* C12: a call on an unregistered name returns UnknownContract, a call with
\* another number of values than names returns BadContractParams; either
\* return leaves extend and the cost of every runtime as they were and
\* invokes no hook and no method.
C12_EarlyReturns ==
    [][(calls' # calls /\ ret'.valid) =>
          /\ ret'.name \notin Registered =>
                 (ret'.err = eUnknownContract /\ ret'.from = "entry")
          /\ (ret'.name \in Registered /\ Len(ret'.pars) # Len(ret'.params)) =>
                 (ret'.err = errContractPars /\ ret'.from = "entry")
          /\ (ret'.from = "entry" /\ ret'.err \in {eUnknownContract, errContractPars}) =>
                 /\ extend' = extend
                 /\ cost' = cost
                 /\ Len(stack') = Len(stack)
                 /\ \A i \in 1..Len(stack) : stack'[i].rtemp = stack[i].rtemp
                 /\ ret'.events = <<>>
                 /\ ~ret'.charged]_vars

C12_Witness ==
    /\ ret.valid /\ ret.depth = 2 /\ ret.from = "entry"
    /\ ret.err = errContractPars
    /\ ret.entry.loop

\* the supplied names whose value the binding loop of line 244 leaves in
\* extend: position i of pars is bound to params[i]
Bound(ext, pars, params, i) ==
    pars[i] \in DOMAIN ext.pars /\ ext.pars[pars[i]] = params[i]
IsLast(pars, i) == \A j \in (i+1)..Len(pars) : pars[j] # pars[i]

\* the steps in which the first method of a call is invoked: the call is
\* pushed on the stack
FirstMethodInvoked == Len(stack') = Len(stack) + 1

C14_RoundTrip ==
    (aux.kind = "parse" /\ aux.done) =>
        /\ aux.out.name = aux.name
        /\ U(0, aux.out.id.hi, aux.out.id.lo) = aux.id

\* C14 (amended): the round trip holds for every id from 1 to 2^32 - 1 and
\* every name of word characters that does not start with a digit.
C14_RoundTripNoLeadingDigit ==
    (/\ aux.kind = "parse" /\ aux.done
     /\ aux.id.top = 0
     /\ ~IsDigit(aux.name[1])) =>
        /\ aux.out.name = aux.name
        /\ U(0, aux.out.id.hi, aux.out.id.lo) = aux.id
C14_Witness ==
    /\ aux.kind = "parse" /\ aux.done
    /\ aux.id = U(0, Half - 1, Half - 1)
    /\ aux.name = <<"_", "5">>
    /\ aux.out.name = aux.name

\* the call exec_contract(rt, "@<state><name>", schema names joined by
\* commas, the map's values in schema order) that C17 compares with, and the
\* state it leaves when made in the state ExContract was called in
RECURSIVE CommaJoined(_)
CommaJoined(names) ==
    IF Len(names) = 0 THEN <<>>
    ELSE IF Len(names) = 1 THEN names[1]
    ELSE CommaJoined(SubSeq(names, 1, Len(names) - 1)) \o <<",">> \o names[Len(names)]
DirectName == QualifiedName(U(0, 0, aux'.state), aux'.name)
DirectTx == Objects[DirectName].Tx
DirectTxs == CommaJoined([i \in 1..Len(DirectTx) |-> DirectTx[i].Name])
DirectVals == [i \in 1..Len(DirectTx) |-> aux'.params[DirectTx[i].Name]]
DirectEnter ==
    Enter(RtBlocks(stack, Len(stack) + 1), RtCost(stack, cost, Len(stack) + 1),
          extend, DirectName, DirectTxs, DirectVals, aux'.sigErr)
SameAsDirect ==
    LET o == DirectEnter
    IN /\ aux'.err = NoError
       /\ IF o.err # NoError
          THEN /\ ret'.valid /\ ret'.err = o.err /\ ret'.from # "wrapper"
               /\ extend' = Deferred(o.ext, DirectName, o.acquired)
               /\ Len(stack') = Len(stack)
               /\ RtCost(stack', cost', Len(stack) + 1) = o.cost
          ELSE /\ ~ret'.valid
               /\ Len(stack') = Len(stack) + 1
               /\ extend' = [o.ext EXCEPT !.parent = o.parent]
               /\ stack'[Len(stack')].pars = Split(DirectTxs)
               /\ stack'[Len(stack')].params = DirectVals
               /\ RtCost(stack', cost', Len(stack) + 1) = o.cost

\* a step in which ExContract is called for a state other than 0 with only
\* the qualified name registered and a map that supplies every schema field
C17_Case ==
    /\ calls' # calls
    /\ aux'.state # 0
    /\ DirectName \in Registered /\ aux'.name \notin Registered
    /\ \A i \in 1..Len(DirectTx) : DirectTx[i].Name \in DOMAIN aux'.params

\* C17 (as claimed): such a call of ExContract leaves the state the direct
\* call of ExecContract leaves.
C17_SameAsDirect ==
    [][C17_Case => SameAsDirect]_vars

\* C17 (amended): it does for every contract whose schema is not empty.
C17_SameAsDirectNonEmptySchema ==
    [][(C17_Case /\ Len(DirectTx) > 0) => SameAsDirect]_vars
C17_Witness ==
    /\ aux.kind = "ex" /\ "state" \in DOMAIN aux
    /\ aux.state = 2 /\ aux.name = <<"G">>
    /\ aux.txs = <<"W", ",", "O">> /\ aux.vals = <<"Ada", "Opt">>
    /\ stack # <<>> /\ Top.name = NameG /\ Len(stack) = 2

\* a lookup of NameFoo on behalf of state n has returned
Looked(n) ==
    /\ aux.kind = "vm" /\ aux.last.op = "resolve"
    /\ aux.last.name = NameFoo /\ aux.last.state = n

\* C15: with "@5foo" registered and "foo" not, the lookup of "foo" for state 5
\* returns the object registered as "@5foo"; the lookup for state 6 returns
\* an object only when "foo" or "@6foo" is registered.
C15_StateLookup ==
    /\ (Looked(5) /\ Name5Foo \in DOMAIN aux.objects /\ NameFoo \notin DOMAIN aux.objects)
          => aux.last.obj = aux.objects[Name5Foo]
    /\ (Looked(6) /\ NameFoo \notin DOMAIN aux.objects /\ Name6Foo \notin DOMAIN aux.objects)
          => aux.last.obj = None
    /\ (Looked(6) /\ aux.last.obj # None)
          => (NameFoo \in DOMAIN aux.objects \/ Name6Foo \in DOMAIN aux.objects)
C15_Witness ==
    /\ Looked(6) /\ aux.last.obj = None
    /\ Name5Foo \in DOMAIN aux.objects

\* both the unqualified and the state-qualified name are registered
BothRegistered(n, qname) ==
    /\ Looked(n)
    /\ NameFoo \in DOMAIN aux.objects /\ qname \in DOMAIN aux.objects

\* C16 (as claimed): when both are registered the lookup returns the
\* state-qualified object; the unqualified one is returned only when the
\* qualified one is absent.
C16_QualifiedFirst ==
    /\ BothRegistered(5, Name5Foo) => aux.last.obj = aux.objects[Name5Foo]
    /\ BothRegistered(6, Name6Foo) => aux.last.obj = aux.objects[Name6Foo]

\* C16 (amended): when both are registered the lookup returns the unqualified
\* object; the state-qualified one is returned only when the unqualified one
\* is absent.
C16_UnqualifiedFirst ==
    /\ BothRegistered(5, Name5Foo) => aux.last.obj = aux.objects[NameFoo]
    /\ BothRegistered(6, Name6Foo) => aux.last.obj = aux.objects[NameFoo]
    /\ \A n \in States :
          (Looked(n) /\ aux.last.obj # None /\ aux.last.obj.Key # NameFoo)
              => NameFoo \notin DOMAIN aux.objects
C16_Witness ==
    /\ BothRegistered(5, Name5Foo)
    /\ aux.last.obj.Key = NameFoo
    /\ aux.objects[Name5Foo].Type = ObjFunc

\* C18: Call returns UnknownFunction when the name does not resolve and when
\* it resolves to an object that is neither a function nor an extern
\* function; nothing is run and the registry is as before.
C18_UnknownFunction ==
    [][(aux.kind = "vm" /\ aux' # aux /\ aux'.last.op = "call") =>
          /\ aux'.objects = aux.objects
          /\ (aux'.last.obj = None \/ aux'.last.obj.Type \notin {ObjFunc, ObjExtFunc}) =>
                 /\ aux'.last.err = eUnknownFunction
                 /\ aux'.last.ran = "none"
          /\ (/\ aux'.last.name \in LoadedKeys \cup {NameSettings}
              /\ aux'.last.name \notin DOMAIN aux.objects
              /\ ~aux'.last.ext.has_state) =>
                 aux'.last.err = eUnknownFunction]_vars
C18_Witness ==
    /\ aux.kind = "vm" /\ aux.last.op = "call"
    /\ aux.last.obj # None /\ aux.last.obj.Type = ObjContract
    /\ aux.last.err = eUnknownFunction

\* C19 (as claimed): when Call invokes an extern function, the argument at
\* every position i with a non-empty Auto[i] is extend[Auto[i]], not the
\* caller's positional argument.
C19_AutoInjected ==
    (aux.kind = "vm" /\ aux.last.op = "call" /\ aux.last.ran = "extern") =>
        \A i \in 1..Len(aux.last.obj.Auto) :
            aux.last.obj.Auto[i] = "rt" => aux.last.args[i] = aux.last.ext.rt

\* the state of caller p, running or suspended
View(p) ==
    IF aux.active = p
    THEN [stack |-> stack, cost |-> cost, extend |-> extend,
          ret |-> ret, calls |-> calls, charged |-> charged]
    ELSE aux.other
OnStack(v, n) == \E i \in 1..Len(v.stack) : v.stack[i].name = n

\* C20: two callers with runtimes and extend maps of their own do not
\* interfere: a caller holds a guard key only for the contracts on its own
\* stack and is returned ContractLoop only for those, the cost of its runtime
\* is its initial cost minus its own charges, and the registry stays as
\* loaded.
C20_NoInterference ==
    aux.kind = "conc" =>
        /\ aux.objects = Objects
        /\ \A p \in {1, 2} :
              LET v == View(p)
              IN /\ \A n \in ConcNames : HasLoop(v.extend, n) <=> OnStack(v, n)
                 /\ (v.ret.valid /\ v.ret.err = eContractLoop /\ v.ret.from = "entry")
                        => OnStack(v, v.ret.name)
                 /\ v.stack = <<>> => v.cost = ConcCosts[p] - v.charged
                 /\ (v.ret.valid /\ v.ret.err = NoError) =>
                        RtCost(v.stack, v.cost, v.ret.depth) =
                            v.ret.entry.cost - (v.charged - v.ret.entry.charged)
C20_Witness ==
    /\ aux.kind = "conc"
    /\ OnStack(View(1), NameA) /\ OnStack(View(2), NameA)
    /\ View(1).charged > CostContract /\ View(2).charged = CostContract
    /\ ret.valid /\ ret.name = NameC /\ ret.err = NoError

\* the parent C21 states for a call of name from the frames blocks
ClaimedParent(blocks, name) ==
    IF blocks = <<>> THEN <<>>
    ELSE LET p == blocks[Len(blocks)].ParentName
             f == ParseContract(p)
             c == ParseContract(name)
         IN IF f.name = <<>> THEN <<>>
            ELSE IF f.id = Zero32 THEN <<"@">> \o f.name
            ELSE IF f.id = c.id THEN f.name
            ELSE p

\* C21 (as claimed): the parent placed in extend for the first method of a
\* call is "" for a top-level call and for a caller whose name has no state,
\* "@"+fname for a caller of state 0, fname for a caller of the callee's
\* state, and the caller's name otherwise.
C21_ParentAsClaimed ==
    [][FirstMethodInvoked =>
          extend'.parent =
              ClaimedParent(RtBlocks(stack, Len(stack) + 1),
                            stack'[Len(stack')].name)]_vars

\* the events of a call from the charge to its first method: the entry call
\* of the stack hook where there is one, then check_signature where the schema
\* of the contract declares Signature and extend["sc"] is set
DeclaresSignature(name) ==
    \E i \in 1..Len(Objects[name].Tx) : Objects[name].Tx[i].Name = Signature
ExpectedHooks(name, hook) ==
    (IF hook THEN <<"stack:enter">> ELSE <<>>) \o
    (IF extend.sc /\ DeclaresSignature(name) THEN <<"check_signature">> ELSE <<>>)
HooksThenMethods(name, hook, events) ==
    /\ IsPrefix(ExpectedHooks(name, hook), events)
    /\ \A i \in (Len(ExpectedHooks(name, hook)) + 1)..Len(events) :
          events[i] # "check_signature"

\* C22: a call that has passed the entry checks invokes check_signature
\* exactly when extend["sc"] is set and the schema declares Signature, after
\* the charge and the entry call of the stack hook and before every method; a
\* call whose check_signature fails returns that error and runs no method.
C22_SignatureHook ==
    /\ \A i \in 1..Len(stack) :
          /\ stack[i].charged
          /\ HooksThenMethods(stack[i].name, stack[i].stackCont, stack[i].events)
    /\ (ret.valid /\ ret.charged) =>
          HooksThenMethods(ret.name, Occurrences(ret.events, "stack:enter") > 0,
                           ret.events)
    /\ (ret.valid /\ ~ret.charged) => ret.events = <<>>
    /\ (ret.valid /\ ret.from = "hook") =>
          /\ ret.err = eSignature
          /\ ret.charged
          /\ ret.events = ExpectedHooks(ret.name, extend.stack_cont /\ extend.sc)
          /\ ret.events[Len(ret.events)] = "check_signature"
          /\ MethodEvents(ret.events) = <<>>
C22_Witness ==
    /\ ret.valid /\ ret.err = eSignature /\ ret.depth = 2
    /\ ret.events = <<"stack:enter", "check_signature">>

\* the optional schema fields of contract name that are not among the
\* supplied names hold the zero value of their type in ext
OptionalsZero(ext, name, supplied) ==
    \A i \in 1..Len(Objects[name].Tx) :
        LET f == Objects[name].Tx[i]
        IN (IsOptional(f.Tags) /\ f.Name \notin supplied) =>
               /\ f.Name \in DOMAIN ext.pars
               /\ ext.pars[f.Name] = ZeroValue(f.Type)
\* the first schema field of contract name that is neither optional nor
\* supplied (<<>>: there is none)
RECURSIVE FirstMissing(_, _, _)
FirstMissing(tx, i, supplied) ==
    IF i > Len(tx) THEN <<>>
    ELSE IF ~IsOptional(tx[i].Tags) /\ tx[i].Name \notin supplied THEN tx[i].Name
    ELSE FirstMissing(tx, i + 1, supplied)

\* C23 (as claimed), for ExContract: when the first method of a contract
\* called through ExContract is invoked, every optional field the map did not
\* supply holds the zero value of its type; a call whose map lacks a required
\* field returns UndefinedParam for the first such field.
C23_ExContractOptionalZero ==
    [][(calls' # calls /\ StateName(aux'.state, aux'.name) \in Registered) =>
          LET qname == StateName(aux'.state, aux'.name)
              missing == FirstMissing(Objects[qname].Tx, 1, DOMAIN aux'.params)
          IN /\ missing # <<>> =>
                   /\ ret'.valid /\ ret'.err = eUndefinedParam
                   /\ ret'.field = missing
             /\ FirstMethodInvoked =>
                   OptionalsZero(extend', qname, DOMAIN aux'.params)]_vars

\* the same for ExecContract called with tx_spec and values
C23_ExecContractOptionalZero ==
    [][(calls' # calls) =>
          /\ FirstMethodInvoked =>
                LET f == stack'[Len(stack')]
                IN OptionalsZero(extend', f.name, ParNames(f.pars))
          /\ (ret'.valid /\ ret'.err = eUndefinedParam /\ ret'.from = "entry") =>
                ret'.field = FirstMissing(Objects[ret'.name].Tx, 1, ParNames(ret'.pars))]_vars

\* the position of a suspended invocation: its contract and its method
Pos(f) == <<f.name, f.mi, f.steps>>

\* while a nested call runs, no invocation below the running one moves: the
\* calling method resumes only after the nested call returned
CallerSuspended ==
    /\ Len(stack') >= Len(stack) - 1
    /\ \A i \in 1..(Len(stack) - 1) :
          /\ i <= Len(stack')
          /\ Pos(stack'[i]) = Pos(stack[i])

\* a step that starts a method of the invocation at the top
MethodStarts ==
    /\ ret' = NoRet
    /\ stack' # <<>>
    /\ \/ Len(stack') > Len(stack)
       \/ Len(stack') = Len(stack) /\ stack'[Len(stack')].mi # Top.mi

\* the parent the invocation at the top of stk computes (lines 248-264)
OwnParent(stk) ==
    LET blocks == RtBlocks(stk, Len(stk))
    IN ParentFrom(blocks, Len(blocks), stk[Len(stk)].name)

\* a step on which a nested call returns successfully
NestedReturns == ret'.valid /\ ret'.err = NoError /\ ret'.depth > 1

\* C24 (as claimed): a nested call runs to completion before the calling
\* method resumes; when it returns successfully extend["parent"] holds the
\* value it had when the caller's method made the call; every method starts
\* with extend["parent"] equal to its contract's own computed parent.
C24_ParentRestoredAfterNested ==
    [][/\ CallerSuspended
       /\ NestedReturns => extend'.parent = ret'.entry.parent
       /\ MethodStarts => extend'.parent = OwnParent(stack')]_vars

\* C24 (amended): the same, the restored value being claimed only for a
\* nested call none of whose parameters is named "parent".
C24_ParentRestoredUnlessParameter ==
    [][/\ CallerSuspended
       /\ (NestedReturns /\ ParentKey \notin ParNames(ret'.pars)) =>
             extend'.parent = ret'.entry.parent
       /\ MethodStarts => extend'.parent = OwnParent(stack')]_vars

\* a nested call whose method ran with a parent of its own has returned, and
\* extend["parent"] is back at the value of the caller, whose method is
\* still the one that made the call
C24_Witness ==
    /\ ret.valid /\ ret.err = NoError /\ ret.depth > 1
    /\ MethodEvents(ret.events) # <<>>
    /\ ParentKey \notin ParNames(ret.pars)
    /\ Len(stack) = ret.depth - 1
    /\ extend.parent = ret.entry.parent
    /\ extend.parent = Top.parent
    /\ ParentFrom(RtBlocks(stack, ret.depth), 1, ret.name) # extend.parent

\* the pattern ^@(\d+)(\w[_\w\d]*)$ with its digit group ending at k
MatchesAt(in, k) ==
    /\ in[1] = "@"
    /\ \A i \in 2..k : IsDigit(in[i])
    /\ \A i \in (k + 1)..Len(in) : IsWord(in[i])
Matches(in) == Len(in) >= 3 /\ \E k \in 2..(Len(in) - 1) : MatchesAt(in, k)
\* the end of the digit group: the longest one that leaves a name
DigitsEnd(in) ==
    CHOOSE k \in 2..(Len(in) - 1) :
        /\ MatchesAt(in, k)
        /\ \A j \in (k + 1)..(Len(in) - 1) : ~MatchesAt(in, j)

\* C25 (as claimed): ParseContract returns (0, "") for every input that does
\* not match the pattern; for a matching input it returns the name, and the
\* id 0 when the digits do not fit 32 bits.
C25_OverflowGivesZero ==
    (aux.kind \in {"parse", "raw"} /\ aux.done) =>
        IF ~Matches(aux.in)
        THEN aux.out = [id |-> Zero32, name |-> <<>>]
        ELSE LET k == DigitsEnd(aux.in)
             IN /\ aux.out.name = SubSeq(aux.in, k + 1, Len(aux.in))
                /\ DecimalValue(SubSeq(aux.in, 2, k)).over => aux.out.id = Zero32

\* what the code does instead: the id of an overflowing digit group is 2^32 - 1
C25_OverflowGivesMax ==
    (aux.kind \in {"parse", "raw"} /\ aux.done) =>
        IF ~Matches(aux.in)
        THEN aux.out = [id |-> Zero32, name |-> <<>>]
        ELSE LET k == DigitsEnd(aux.in)
             IN /\ aux.out.name = SubSeq(aux.in, k + 1, Len(aux.in))
                /\ DecimalValue(SubSeq(aux.in, 2, k)).over =>
                      aux.out.id = [hi |-> Half - 1, lo |-> Half - 1]

\* the empty string as a parameter name
EmptyKey == <<>>

\* C26: ExContract on a registered contract with an empty schema hands
\* ExecContract the empty name list and the single value ""; the call is not
\* rejected with errContractPars: unless the loop guard stops it, the first
\* method starts, with the key "" bound to "" as the only change of the
\* parameters in extend. ExecContract called in the same state with the empty
\* tx_spec and no value returns errContractPars.
C26_DummyAccepted ==
    [][(/\ calls' # calls
        /\ StateName(aux'.state, aux'.name) \in Registered
        /\ Objects[StateName(aux'.state, aux'.name)].Tx = <<>>) =>
          LET qname == StateName(aux'.state, aux'.name)
              d == Len(stack) + 1
              direct == Enter(RtBlocks(stack, d), RtCost(stack, cost, d), extend,
                              qname, <<>>, <<>>, aux'.sigErr)
          IN /\ aux'.err = NoError
             /\ aux'.txs = <<>>
             /\ aux'.vals = <<"">>
             /\ ret'.valid => ret'.err = eContractLoop
             /\ ~HasLoop(extend, qname) =>
                   /\ NextMethod(qname, 1) # 0 => FirstMethodInvoked
                   /\ extend'.pars = (EmptyKey :> "") @@ extend.pars
                   /\ extend'.result = extend.result
                   /\ extend'.sc = extend.sc
             /\ direct.err = errContractPars]_vars

\* a call of ExContract on the contract D without schema has run its method
\* and returned successfully, leaving the key "" in extend
C26_Witness ==
    /\ aux.kind = "ex" /\ calls > 0
    /\ StateName(aux.state, aux.name) = NameD
    /\ aux.txs = <<>> /\ aux.vals = <<"">>
    /\ ret.valid /\ ret.name = NameD /\ ret.err = NoError /\ ret.from = "end"
    /\ MethodEvents(ret.events) = <<"action">>
    /\ EmptyKey \in DOMAIN extend.pars
    /\ extend.pars[EmptyKey] = ""

\* the block id a host is counted with: 0 when its query failed
Counted(reply) == IF reply.ok THEN reply.id ELSE 0

\* the result the claim states for the hosts and their answers
BestOfAll ==
    IF aux.n = 0
    THEN aux.result.host = <<>> /\ aux.result.id = -1
    ELSE /\ \A j \in 1..aux.n : Counted(aux.reply[j]) <= aux.result.id
         /\ \E j \in 1..aux.n :
               /\ aux.result.host = Host(j)
               /\ Counted(aux.reply[j]) = aux.result.id

\* chooseBestHost has returned: with the error of the context only if the
\* context was cancelled, and otherwise with the best host and no goroutine
\* left blocked
Chosen ==
    /\ aux.pc = "done"
    /\ IF aux.result.err # NoError
       THEN aux.cancelled
       ELSE /\ BestOfAll
            /\ \A j \in 1..aux.n : aux.g[j] = "sent"

\* C27: for every interleaving of the goroutines, chooseBestHost returns;
\* when the context is not cancelled it returns a host whose block id, 0 for
\* a host whose query failed, is the maximum over all hosts, and that id; with
\* no hosts it returns ("", -1).
C27_BestHostChosen == (aux.pc = "range") ~> Chosen

\* the call has returned the host with the largest id, the query of another
\* host having failed
C27_Witness ==
    /\ aux.kind = "hosts" /\ aux.pc = "done"
    /\ aux.n = MaxHosts
    /\ aux.result.err = NoError
    /\ ~aux.reply[1].ok
    /\ aux.reply[2] = [ok |-> TRUE, id |-> 5]
    /\ aux.result = [host |-> Host(2), id |-> 5, err |-> NoError]
    /\ aux.c = <<>>

====
